---- MODULE Spec2Model ----
(***************************************************************************)
(* Model of the MCP server of main.py: the sandboxed file tools, the       *)
(* method registry built by the @method decorators, the JSON-RPC dispatch  *)
(* and the two transports (main_stdio, mcp_endpoint).                      *)
(*                                                                         *)
(* A path is a sequence of segments; an absolute path starts at <<>>, the  *)
(* filesystem root.  A file's text is a sequence of characters, with "CR"  *)
(* and "LF" standing for carriage return and line feed.                    *)
(*                                                                         *)
(* The imported jsonrpcserver package is not part of main.py; its          *)
(* async_dispatch is modelled by the dispatcher contract of section 4.1 of *)
(* the specification (method lookup by registered name, invalid params,    *)
(* internal error for an exception raised in a method, no reply to a       *)
(* notification).                                                          *)
(***************************************************************************)
EXTENDS Integers, Sequences, FiniteSets, TLC

VARIABLES
    mode,      \* "stdio" or "http": the transport chosen by the CLI (main.py:412-415)
    files,     \* regular files of the filesystem: canonical path -> text
    links,     \* symbolic links that exist: set of canonical paths
    pc,        \* position of main_stdio: "read", "got", "done"
    request,   \* main_stdio's local `request`: the line read and not yet answered
    last,      \* the last completed exchange: request, response, output, I/O done
    claimed,   \* what the last successful writes to one filename should read back
    config,    \* the configuration tables and environment read at start-up
    first,     \* the first exchange of the run, where it is kept for comparison
    conns      \* the POST /mcp requests in flight on the event loop, by connection

vars == <<mode, files, links, pc, request, last, claimed, config, first, conns>>

(***************************************************************************)
(* Bounds                                                                  *)
(***************************************************************************)
MaxLen == 2          \* longest file text kept (longer writes are not issued)

(***************************************************************************)
(* The filesystem around the sandbox                                       *)
(***************************************************************************)
Cwd == <<"work">>
SandboxRoot == Cwd \o <<"sandbox">>          \* pathlib.Path("sandbox").resolve()

PathA       == SandboxRoot \o <<"a.txt">>
PathSub     == SandboxRoot \o <<"sub">>
PathSubC    == PathSub \o <<"c.txt">>
PathLinkIn  == SandboxRoot \o <<"link_in">>   \* symlink -> sandbox/a.txt
PathLinkOut == SandboxRoot \o <<"link_out">>  \* symlink -> /work/secret
PathSecret  == Cwd \o <<"secret">>
PathPasswd  == <<"etc", "passwd">>

Dirs == {<<>>, Cwd, SandboxRoot, PathSub, <<"etc">>}

LinkTarget(p) == IF p = PathLinkIn THEN PathA ELSE PathSecret

OutsideFiles == {PathSecret, PathPasswd}

Parent(p) == IF p = <<>> THEN <<>> ELSE SubSeq(p, 1, Len(p) - 1)

IsPrefix(r, p) == Len(r) <= Len(p) /\ SubSeq(p, 1, Len(r)) = r

\* PurePath.is_relative_to(root) on two resolved paths
is_relative_to(p, root) == IsPrefix(root, p)

(***************************************************************************)
(* Filenames a client can send.  str = FALSE is a JSON value that is not a *)
(* string (a number); abs tells a leading "/"; segs are the segments       *)
(* between slashes, as pathlib keeps them ("." and empty segments dropped, *)
(* ".." kept).                                                             *)
(***************************************************************************)
Fn(abs, segs) == [str |-> TRUE, abs |-> abs, segs |-> segs]

FnA       == Fn(FALSE, <<"a.txt">>)                      \* "a.txt"
FnSubUpA  == Fn(FALSE, <<"sub", "..", "a.txt">>)         \* "sub/../a.txt"
FnSubC    == Fn(FALSE, <<"sub", "c.txt">>)               \* "sub/c.txt"
FnUp      == Fn(FALSE, <<"..", "secret">>)               \* "../secret"
FnAbsOut  == Fn(TRUE,  <<"etc", "passwd">>)              \* "/etc/passwd"
FnAbsIn   == Fn(TRUE,  <<"work", "sandbox", "a.txt">>)   \* "/work/sandbox/a.txt"
FnLinkIn  == Fn(FALSE, <<"link_in">>)                    \* "link_in"
FnLinkOut == Fn(FALSE, <<"link_out">>)                   \* "link_out"
FnRoot    == Fn(FALSE, <<>>)                             \* ""
FnNumber  == [str |-> FALSE, abs |-> FALSE, segs |-> <<>>]  \* 7

Filenames == {FnA, FnSubUpA, FnSubC, FnUp, FnAbsOut, FnAbsIn, FnLinkIn,
              FnLinkOut, FnRoot, FnNumber}

\* the raw string contains a "../" sequence
HasDotDot(fn) == \E i \in 1..Len(fn.segs) : fn.segs[i] = ".." /\ i < Len(fn.segs)

\* pathlib.Path("sandbox") / filename, made absolute against the working
\* directory: an absolute right operand replaces the left one.
Join(fn) == IF fn.abs THEN fn.segs ELSE SandboxRoot \o fn.segs

\* Path.resolve() (os.path.realpath, strict = False) in filesystem state
\* lk: ".." drops the last resolved segment, a symlink is replaced by its
\* target, a missing component is kept as it is.
RECURSIVE ResolveFrom(_, _, _)
ResolveFrom(cur, rest, lk) ==
    IF rest = <<>> THEN cur
    ELSE IF Head(rest) = ".." THEN ResolveFrom(Parent(cur), Tail(rest), lk)
    ELSE LET new == Append(cur, Head(rest)) IN
         IF new \in lk
            THEN ResolveFrom(<<>>, LinkTarget(new) \o Tail(rest), lk)
            ELSE ResolveFrom(new, Tail(rest), lk)

resolve(p, lk) == ResolveFrom(<<>>, p, lk)

\* The kernel's path walk for open, stat and unlink: every component but
\* the last must be a directory (or a symlink to one); the last one is
\* followed when it is a symlink and follow is TRUE.
RECURSIVE WalkFrom(_, _, _, _, _)
WalkFrom(cur, rest, follow, fl, lk) ==
    IF rest = <<>> THEN [ok |-> TRUE, loc |-> cur]
    ELSE IF Head(rest) = ".." THEN WalkFrom(Parent(cur), Tail(rest), follow, fl, lk)
    ELSE LET new  == Append(cur, Head(rest))
             more == Tail(rest) /= <<>>
         IN  IF new \in lk /\ (more \/ follow)
                THEN WalkFrom(<<>>, LinkTarget(new) \o Tail(rest), follow, fl, lk)
             ELSE IF ~more THEN [ok |-> TRUE, loc |-> new]
             ELSE IF new \in Dirs THEN WalkFrom(new, Tail(rest), follow, fl, lk)
             ELSE [ok |-> FALSE, loc |-> new]      \* ENOENT or ENOTDIR

Walk(p, follow, fl, lk) == WalkFrom(<<>>, p, follow, fl, lk)

\* Path.exists(): stat succeeds
exists(p, fl, lk) ==
    LET w == Walk(p, TRUE, fl, lk)
    IN  w.ok /\ (w.loc \in Dirs \/ w.loc \in DOMAIN fl)

\* is_file() that does not follow a symlink (lstat in place of stat)
is_file_lstat(p, fl, lk) ==
    LET w == Walk(p, FALSE, fl, lk)
    IN  w.ok /\ w.loc \in DOMAIN fl

\* Path.is_file(): stat succeeds on a regular file
is_file(p, fl, lk) ==
    LET w == Walk(p, TRUE, fl, lk)
    IN  w.ok /\ w.loc \in DOMAIN fl

(***************************************************************************)
(* Text-mode files: open(path, "r"/"w"/"a") with the default newline=None  *)
(***************************************************************************)
Linesep == <<"LF">>          \* os.linesep of a POSIX host

\* writing: every "\n" becomes os.linesep
RECURSIVE EncodeNewlines(_)
EncodeNewlines(s) ==
    IF s = <<>> THEN <<>>
    ELSE (IF Head(s) = "LF" THEN Linesep ELSE <<Head(s)>>) \o EncodeNewlines(Tail(s))

\* reading: universal newlines, "\r\n" and "\r" are returned as "\n"
RECURSIVE DecodeNewlines(_)
DecodeNewlines(s) ==
    IF s = <<>> THEN <<>>
    ELSE IF Head(s) = "CR"
        THEN IF Len(s) >= 2 /\ s[2] = "LF"
                THEN <<"LF">> \o DecodeNewlines(Tail(Tail(s)))
                ELSE <<"LF">> \o DecodeNewlines(Tail(s))
    ELSE <<Head(s)>> \o DecodeNewlines(Tail(s))

(***************************************************************************)
(* Handler outcomes.  A handler returns Success(...), returns the Error     *)
(* object of main.py:306-311 (a code and a message), or raises.            *)
(***************************************************************************)
Success(result) == [kind |-> "success", code |-> 0, result |-> result]
Error(code, message) == [kind |-> "error", code |-> code, result |-> [message |-> message]]
Raised(exc) == [kind |-> "raise", code |-> 0, result |-> [message |-> exc]]

\* what a handler hands back: its outcome, the filesystem it leaves, and
\* the filesystem calls it made (each an operation on a canonical location)
Done(out, fl, lk, io) == [out |-> out, files |-> fl, links |-> lk, io |-> io]

Ev(op, loc) == [op |-> op, loc |-> loc]

\* where a filesystem call on path p lands
Target(p, follow, fl, lk) ==
    LET w == Walk(p, follow, fl, lk) IN IF w.ok THEN w.loc ELSE resolve(p, lk)

\* the containment check on the joined path as written, without resolve()
InSandboxLexical(file_path, lk) == is_relative_to(file_path, SandboxRoot)

\* file_path.resolve().is_relative_to(pathlib.Path("sandbox").resolve())
InSandbox(file_path, lk) ==
    is_relative_to(resolve(file_path, lk), resolve(SandboxRoot, lk))

\* lines 225-231 of tool/file-read, once the path has passed the check:
\* loc is where open() and exists() land
read_within(file_path, loc, fl, lk) ==
    IF ~exists(file_path, fl, lk)
        THEN Done(Error(-32004, "not found"), fl, lk, {Ev("stat", loc)})
    ELSE IF loc \in DOMAIN fl
        THEN Done(Success([content |-> DecodeNewlines(fl[loc])]), fl, lk,
                  {Ev("stat", loc), Ev("read", loc)})
    ELSE Done(Error(-32002, "read error"), fl, lk, {Ev("stat", loc), Ev("open", loc)})

\* tool/file-read with the existence check placed before the containment check
tool_file_read_handler_probe_first(filename, fl, lk) ==
    IF ~filename.str THEN Done(Raised("TypeError"), fl, lk, {})
    ELSE IF ~exists(Join(filename), fl, lk)
        THEN Done(Error(-32004, "not found"), fl, lk,
                  {Ev("stat", Target(Join(filename), TRUE, fl, lk))})
    ELSE IF ~InSandbox(Join(filename), lk)
        THEN Done(Error(-32003, "denied"), fl, lk,
                  {Ev("stat", Target(Join(filename), TRUE, fl, lk))})
    ELSE read_within(Join(filename), Target(Join(filename), TRUE, fl, lk), fl, lk)

\* tool/file-read
tool_file_read_handler(filename, fl, lk) ==
    IF ~filename.str THEN Done(Raised("TypeError"), fl, lk, {})
    ELSE IF ~InSandbox(Join(filename), lk) THEN Done(Error(-32003, "denied"), fl, lk, {})
    ELSE read_within(Join(filename), Target(Join(filename), TRUE, fl, lk), fl, lk)

\* open(file_path, mode) and f.write(content): the text the file then holds
Written(old, content, append) ==
    IF append THEN old \o EncodeNewlines(content) ELSE EncodeNewlines(content)

\* lines 251-255 of tool/file-write, once the path has passed the check
write_within(ok, loc, content, append, fl, lk) ==
    IF ~ok \/ loc \in Dirs
        THEN Done(Error(-32002, "write error"), fl, lk, {Ev("open", loc)})
        ELSE Done(Success([message |-> IF append THEN "appended to" ELSE "wrote"]),
                  [q \in DOMAIN fl \cup {loc} |->
                      IF q = loc
                         THEN Written(IF loc \in DOMAIN fl THEN fl[loc] ELSE <<>>,
                                      content, append)
                         ELSE fl[q]],
                  lk, {Ev("write", loc)})

\* tool/file-write
tool_file_write_handler(filename, content, append, fl, lk) ==
    IF ~filename.str THEN Done(Raised("TypeError"), fl, lk, {})
    ELSE IF ~InSandbox(Join(filename), lk) THEN Done(Error(-32003, "denied"), fl, lk, {})
    ELSE write_within(Walk(Join(filename), TRUE, fl, lk).ok,
                      Target(Join(filename), TRUE, fl, lk), content, append, fl, lk)

\* the entries of a directory
iterdir(d, fl, lk) == {q \in (DOMAIN fl) \cup lk \cup Dirs : q /= <<>> /\ Parent(q) = d}

Name(q) == q[Len(q)]

\* tool/file-list
tool_file_list_handler(fl, lk) ==
    Done(Success([files |-> {Name(f) : f \in {q \in iterdir(SandboxRoot, fl, lk) :
                                                  is_file(q, fl, lk)}}]),
         fl, lk,
         {Ev("listdir", SandboxRoot)} \cup
         {Ev("stat", Target(q, TRUE, fl, lk)) : q \in iterdir(SandboxRoot, fl, lk)})

\* a delete that unlinks before it looks whether the file exists
delete_within_unlink_first(file_path, ok, loc, st, fl, lk) ==
    IF ~exists(file_path, fl, lk)
        THEN Done(Error(-32004, "not found"), fl, IF ok THEN lk \ {loc} ELSE lk,
                  {st, Ev("unlink", loc)})
    ELSE IF ok /\ loc \in lk
        THEN Done(Success([message |-> "deleted"]), fl, lk \ {loc}, {st, Ev("unlink", loc)})
    ELSE IF ok /\ loc \in DOMAIN fl
        THEN Done(Success([message |-> "deleted"]), [q \in DOMAIN fl \ {loc} |-> fl[q]], lk,
                  {st, Ev("unlink", loc)})
    ELSE Done(Error(-32002, "delete error"), fl, lk, {st, Ev("unlink", loc)})

\* lines 278-282 of tool/file-delete, once the path has passed the check:
\* st is the stat of exists(), loc is where unlink() lands
delete_within(file_path, ok, loc, st, fl, lk) ==
    IF ~exists(file_path, fl, lk) THEN Done(Error(-32004, "not found"), fl, lk, {st})
    ELSE IF ok /\ loc \in lk
        THEN Done(Success([message |-> "deleted"]), fl, lk \ {loc}, {st, Ev("unlink", loc)})
    ELSE IF ok /\ loc \in DOMAIN fl
        THEN Done(Success([message |-> "deleted"]), [q \in DOMAIN fl \ {loc} |-> fl[q]], lk,
                  {st, Ev("unlink", loc)})
    ELSE Done(Error(-32002, "delete error"), fl, lk, {st, Ev("unlink", loc)})

\* tool/file-delete
tool_file_delete_handler(filename, fl, lk) ==
    IF ~filename.str THEN Done(Raised("TypeError"), fl, lk, {})
    ELSE IF ~InSandbox(Join(filename), lk) THEN Done(Error(-32003, "denied"), fl, lk, {})
    ELSE delete_within(Join(filename), Walk(Join(filename), FALSE, fl, lk).ok,
                       Target(Join(filename), FALSE, fl, lk),
                       Ev("stat", Target(Join(filename), TRUE, fl, lk)), fl, lk)

(***************************************************************************)
(* Configuration, environment and record store: read-only after start-up   *)
(***************************************************************************)
\* a JSON text held in a string: well-formed with a value, or malformed
Json(value) == [parses |-> TRUE, value |-> value]
BadJson == [parses |-> FALSE, value |-> "?"]
NoText == [parses |-> FALSE, value |-> ""]         \* None or the empty string

ServerConfig ==
    [ secret    |-> "k1",                                  \* os.getenv("SECRET_KEY")
      bing_key  |-> TRUE,                                  \* BING_API_KEY is set
      google_key |-> FALSE,                                \* GOOGLE_API_KEY and GOOGLE_CX
      default   |-> "bing",                                \* search_config["default"]
      apis      |-> {"bing", "google"},                    \* keys of search_config["apis"]
      enabled   |-> {"bing"},                              \* apis with enabled = true
      resources |-> <<"dataset">>,                         \* keys of resources.json
      prompts   |-> <<"greet", "blank">>,                 \* keys of prompts.json
      filled    |-> {"greet"} ]                            \* prompts whose descriptor is not {}

\* rows of ModelContextDB, in storage order
Records ==
    << [model_id |-> "m1", version |-> "1", status |-> "ready",
        parameters |-> Json("{}"), metrics |-> NoText],
       [model_id |-> "m2", version |-> "2", status |-> "ready",
        parameters |-> BadJson, metrics |-> NoText],
       [model_id |-> "m1", version |-> "3", status |-> "retired",
        parameters |-> Json("{}"), metrics |-> Json("{}")],
       [model_id |-> "m3", version |-> "1", status |-> "ready",
        parameters |-> Json("{}"), metrics |-> Json("[1]")] >>

\* an initialize that lets a client without a key in
initialize_handler_optional(secret_key, cfg) ==
    IF cfg.secret /= "" /\ secret_key /= "<None>" /\ secret_key /= cfg.secret
       THEN Error(-32001, "unauthorized")
       ELSE Success([status |-> "initialized"])

\* initialize
initialize_handler(secret_key, cfg) ==
    LET expected_key == cfg.secret
    IN  IF expected_key /= "" /\ secret_key /= expected_key
           THEN Error(-32001, "unauthorized")
           ELSE Success([status |-> "initialized"])

\* a capabilities/list whose resources list outlives the call: the configured
\* entries are appended again by every call after the first exchange
capabilities_list_handler_accumulating(cfg) ==
    Success([ resources |-> <<"resource://model-context/{model_id}">> \o
                            [i \in 1..Len(cfg.resources) |-> cfg.resources[i]] \o
                            (IF first.state = "set"
                                THEN [i \in 1..Len(cfg.resources) |-> cfg.resources[i]]
                                ELSE <<>>),
              tools |-> <<"tool://web-search", "tool://file-read", "tool://file-write",
                          "tool://file-list", "tool://file-delete">>,
              prompts |-> <<"prompt://list", "prompt://{prompt_name}">> ])

\* a capabilities/list that advertises tools only next to configured resources
capabilities_list_handler_configured(cfg) ==
    Success([ resources |-> <<"resource://model-context/{model_id}">> \o
                            [i \in 1..Len(cfg.resources) |-> cfg.resources[i]],
              tools |-> IF cfg.resources = <<>> THEN <<"tool://web-search">>
                        ELSE <<"tool://web-search", "tool://file-read", "tool://file-write",
                               "tool://file-list", "tool://file-delete">>,
              prompts |-> <<"prompt://list", "prompt://{prompt_name}">> ])

\* capabilities/list
capabilities_list_handler(cfg) ==
    Success([ resources |-> <<"resource://model-context/{model_id}">> \o
                            [i \in 1..Len(cfg.resources) |-> cfg.resources[i]],
              tools |-> <<"tool://web-search", "tool://file-read", "tool://file-write",
                          "tool://file-list", "tool://file-delete">>,
              prompts |-> <<"prompt://list", "prompt://{prompt_name}">> ])

\* a result that parses the metrics whether or not the row has any
model_context_result_strict(model_context) ==
    IF ~model_context.parameters.parses \/ ~model_context.metrics.parses
        THEN Raised("JSONDecodeError")
    ELSE Success([version |-> model_context.version, status |-> model_context.status,
                  parameters |-> model_context.parameters.value,
                  metrics |-> model_context.metrics.value])

\* lines 121-126: the result built from the first matching row
model_context_result(model_context) ==
    IF ~model_context.parameters.parses THEN Raised("JSONDecodeError")
    ELSE IF model_context.metrics = NoText
        THEN Success([version |-> model_context.version, status |-> model_context.status,
                      parameters |-> model_context.parameters.value, metrics |-> "null"])
    ELSE IF ~model_context.metrics.parses THEN Raised("JSONDecodeError")
    ELSE Success([version |-> model_context.version, status |-> model_context.status,
                  parameters |-> model_context.parameters.value,
                  metrics |-> model_context.metrics.value])

\* resource/model-context
resource_model_context_handler(model_id) ==
    LET hits == {i \in 1..Len(Records) : Records[i].model_id = model_id}
    IN  IF hits = {} THEN Error(-32004, "not found")
        ELSE model_context_result(Records[CHOOSE i \in hits : \A j \in hits : i <= j])

\* requests.get(...) of a provider adapter: net is what the provider does
search_request(net) ==
    IF net = "ok" THEN Success([results |-> <<>>])
    ELSE IF net = "error" THEN Error(-32002, "request error")
    ELSE [kind |-> "hang", code |-> 0, result |-> [message |-> "no answer"]]

\* what a search handler returns, and the requests it sent to get there
Fetch(out, io) == [out |-> out, io |-> io]

bing_search_handler(query, cfg, net) ==
    IF ~cfg.bing_key THEN Fetch(Error(-32001, "no key"), {})
    ELSE Fetch(search_request(net), {Ev("get", <<"bing">>)})

google_search_handler(query, cfg, net) ==
    IF ~cfg.google_key THEN Fetch(Error(-32001, "no key"), {})
    ELSE Fetch(search_request(net), {Ev("get", <<"google">>)})

\* the provider a search goes to; api = "" stands for None
api_to_use(api, cfg) ==
    IF api /= "" THEN api ELSE IF cfg.default /= "" THEN cfg.default ELSE "bing"

\* a search that asks only whether the provider is in the configuration
tool_web_search_handler_present(query, api, cfg, net) ==
    IF api_to_use(api, cfg) \notin cfg.apis THEN Fetch(Error(-32001, "not enabled"), {})
    ELSE IF api_to_use(api, cfg) = "bing" THEN bing_search_handler(query, cfg, net)
    ELSE IF api_to_use(api, cfg) = "google" THEN google_search_handler(query, cfg, net)
    ELSE Fetch(Error(-32001, "unsupported"), {})

\* tool/web-search
tool_web_search_handler(query, api, cfg, net) ==
    IF api_to_use(api, cfg) \notin cfg.apis \/ api_to_use(api, cfg) \notin cfg.enabled
        THEN Fetch(Error(-32001, "not enabled"), {})
    ELSE IF api_to_use(api, cfg) = "bing" THEN bing_search_handler(query, cfg, net)
    ELSE IF api_to_use(api, cfg) = "google" THEN google_search_handler(query, cfg, net)
    ELSE Fetch(Error(-32001, "unsupported"), {})

SeqToSet(q) == {q[i] : i \in 1..Len(q)}

\* prompt/list
prompt_list_handler(cfg) == Success([prompts |-> cfg.prompts])

\* prompt/{prompt_name}
prompt_handler(prompt_name, cfg) ==
    IF prompt_name \notin SeqToSet(cfg.prompts) \/ prompt_name \notin cfg.filled
       THEN Error(-32004, "not found")
       ELSE Success([template |-> prompt_name, description |-> prompt_name])

(***************************************************************************)
(* Method registry: each @method decorator registers its function under    *)
(* the function's own name, with the parameters of its signature.          *)
(***************************************************************************)
Sig(required, optional) == [required |-> required, optional |-> optional]

Registry ==
    [ initialize_handler             |-> Sig({}, {"secret_key"}),
      capabilities_list_handler      |-> Sig({}, {}),
      resource_model_context_handler |-> Sig({"model_id"}, {}),
      tool_web_search_handler        |-> Sig({"query"}, {"api"}),
      tool_file_read_handler         |-> Sig({"filename"}, {}),
      tool_file_write_handler        |-> Sig({"filename", "content"}, {"append"}),
      tool_file_list_handler         |-> Sig({}, {}),
      tool_file_delete_handler       |-> Sig({"filename"}, {}),
      prompt_list_handler            |-> Sig({}, {}),
      prompt_handler                 |-> Sig({"prompt_name"}, {}) ]

Registered(m) == m \in DOMAIN Registry

\* the params object of a request: the names given, and their values
\* (text is the value of the method's string parameter)
Params(given, filename, content, append, text, api) ==
    [given |-> given, filename |-> filename, content |-> content,
     append |-> append, text |-> text, api |-> api]

NoParams == Params({}, FnRoot, <<>>, FALSE, "", "")

NoId == "absent"             \* a request without an id: a notification

\* a search handler's outcome, the filesystem left as it was
Did(h, fl, lk) == Done(h.out, fl, lk, h.io)

\* the handler a registered name is bound to, called with the params as
\* keyword arguments (an omitted optional parameter takes its default)
Call(m, ps, fl, lk, cfg, net) ==
    CASE m = "initialize_handler" ->
            Done(initialize_handler(IF "secret_key" \in ps.given THEN ps.text ELSE "<None>",
                                    cfg), fl, lk, {})
      [] m = "capabilities_list_handler" -> Done(capabilities_list_handler(cfg), fl, lk, {})
      [] m = "resource_model_context_handler" ->
            Done(resource_model_context_handler(ps.text), fl, lk, {})
      [] m = "tool_web_search_handler" ->
            Did(tool_web_search_handler(ps.text,
                                        IF "api" \in ps.given THEN ps.api ELSE "",
                                        cfg, net), fl, lk)
      [] m = "tool_file_read_handler" -> tool_file_read_handler(ps.filename, fl, lk)
      [] m = "tool_file_write_handler" ->
            tool_file_write_handler(ps.filename, ps.content,
                                    IF "append" \in ps.given THEN ps.append ELSE FALSE,
                                    fl, lk)
      [] m = "tool_file_list_handler" -> tool_file_list_handler(fl, lk)
      [] m = "tool_file_delete_handler" -> tool_file_delete_handler(ps.filename, fl, lk)
      [] m = "prompt_list_handler" -> Done(prompt_list_handler(cfg), fl, lk, {})
      [] m = "prompt_handler" -> Done(prompt_handler(ps.text, cfg), fl, lk, {})

(***************************************************************************)
(* async_dispatch: one parsed JSON value in, one response out              *)
(***************************************************************************)
Resp(kind, id, code, result) == [kind |-> kind, id |-> id, code |-> code, result |-> result]

NoResult == [message |-> ""]
EmptyResp == Resp("empty", "null", 0, NoResult)       \* the empty string async_dispatch returns
ParseError == Resp("error", "null", -32700, [message |-> "Parse error"])

\* what async_dispatch answers: nothing to a notification
Reply(req, kind, code, result) ==
    IF req.id = NoId THEN EmptyResp ELSE Resp(kind, req.id, code, result)

Dispatched(resp, out, d, handler) ==
    [resp |-> resp, out |-> out, files |-> d.files, links |-> d.links, io |-> d.io,
     handler |-> handler]

NotCalled == Success(NoResult)

\* a request the dispatcher answers without calling a handler
Unserved(resp, fl, lk) == Dispatched(resp, NotCalled, Done(NotCalled, fl, lk, {}), "none")

\* the response to a request whose handler ended with outcome out
ResponseTo(req, out) ==
    IF out.kind = "hang" THEN Resp("hang", "null", 0, NoResult)
    ELSE IF out.kind = "raise" THEN Reply(req, "error", -32603, NoResult)
    ELSE IF out.kind = "error" THEN Reply(req, "error", out.code, out.result)
    ELSE Reply(req, "result", 0, out.result)

Served(req, d) == Dispatched(ResponseTo(req, d.out), d.out, d, req.method)

\* the params fit the signature: every required name, no unknown name
Binds(sig, given) ==
    sig.required \subseteq given /\ given \subseteq sig.required \cup sig.optional

async_dispatch(req, fl, lk, cfg, net) ==
    IF req.shape /= "request"
        THEN Unserved(Resp("error", "null", -32600, NoResult), fl, lk)
    ELSE IF ~Registered(req.method)
        THEN Unserved(Reply(req, "error", -32601, NoResult), fl, lk)
    ELSE IF ~Binds(Registry[req.method], req.params.given)
        THEN Unserved(Reply(req, "error", -32602, NoResult), fl, lk)
    ELSE Served(req, Call(req.method, req.params, fl, lk, cfg, net))

(***************************************************************************)
(* What a client can send                                                  *)
(***************************************************************************)
Contents == {<<"a">>, <<"CR">>}
Nets == {"ok", "error", "hang"}

Req(id, method, params) == [shape |-> "request", id |-> id, method |-> method, params |-> params]

FileParams(f) == Params({"filename"}, f, <<>>, FALSE, "", "")
WriteParams(f, c) == Params({"filename", "content"}, f, c, FALSE, "", "")
WriteModeParams(f, c, ap) == Params({"filename", "content", "append"}, f, c, ap, "", "")
TextParams(name, t) == Params({name}, FnRoot, <<>>, FALSE, t, "")

\* the method names of the handlers' docstrings
DocNames == {"initialize", "capabilities/list", "resource/model-context",
             "tool/web-search", "tool/file-read", "tool/file-write", "tool/file-list",
             "tool/file-delete", "prompt/list"}

\* the file-tool requests: every filename on every file tool
FileRequests ==
    {Req("1", "tool_file_read_handler", FileParams(f)) : f \in Filenames}
    \cup {Req("1", "tool_file_delete_handler", FileParams(f)) : f \in Filenames}
    \cup {Req("1", "tool_file_write_handler", WriteParams(f, c)) :
              f \in Filenames \ {FnSubC}, c \in Contents}
    \cup {Req("1", "tool_file_write_handler", WriteModeParams(f, c, TRUE)) :
              f \in Filenames \ {FnSubC}, c \in Contents}
    \cup {Req("1", "tool_file_write_handler", WriteModeParams(FnA, <<"a">>, FALSE)),
          Req("1", "tool_file_write_handler", WriteParams(FnSubC, <<"a">>)),
          Req("1", "tool_file_list_handler", NoParams)}

\* requests to every method name, with and without an id, well-formed and not
RpcRequests ==
    {Req(id, m, NoParams) : id \in {"1", "null", NoId}, m \in DocNames \cup {"no/such"}}
    \cup {Req("1", "tool/file-read", FileParams(FnA)),
          Req("1", "tool/file-write", WriteParams(FnA, <<"a">>)),
          Req("1", "tool/file-delete", FileParams(FnA))}
    \cup {Req(id, "tool_file_list_handler", NoParams) : id \in {"1", "null", NoId}}
    \cup {Req(id, "tool_file_write_handler", WriteParams(FnA, <<"a">>)) :
              id \in {"1", "null", NoId}}
    \cup {Req(id, "tool_file_delete_handler", FileParams(FnA)) : id \in {"1", NoId}}
    \cup {Req(id, "tool_file_read_handler", FileParams(f)) :
              id \in {"1", NoId}, f \in {FnA, FnUp, FnNumber}}
    \cup {Req(id, "tool_file_read_handler", NoParams) : id \in {"1", NoId}}
    \cup {Req("1", "initialize_handler", NoParams),
          Req("1", "initialize_handler", TextParams("secret_key", "k1")),
          Req("1", "initialize_handler", TextParams("secret_key", "bad")),
          Req("1", "capabilities_list_handler", NoParams),
          Req("1", "capabilities_list_handler", TextParams("extra", "x")),
          Req("1", "prompt_list_handler", NoParams),
          Req("1", "prompt_handler", TextParams("prompt_name", "greet")),
          Req("1", "prompt_handler", TextParams("prompt_name", "blank")),
          Req("1", "prompt_handler", TextParams("prompt_name", "nope")),
          Req("1", "tool_web_search_handler", TextParams("query", "q")),
          Req("1", "tool_web_search_handler", NoParams),
          Req("1", "tool_web_search_handler",
              Params({"query", "api"}, FnRoot, <<>>, FALSE, "q", "google"))}
    \cup {Req(id, "resource_model_context_handler", TextParams("model_id", mid)) :
              id \in {"1", NoId}, mid \in {"m1", "m2", "m3", "missing"}}
    \cup {[shape |-> "other", id |-> NoId, method |-> "", params |-> NoParams]}

\* a line of standard input, or the body of a POST: JSON text that parses
\* to a value, or text that does not parse
Parsed(req) == [json |-> TRUE, value |-> req]
Malformed == [json |-> FALSE, value |-> Req(NoId, "", NoParams)]
Eof == [json |-> FALSE, value |-> Req(NoId, "<eof>", NoParams)]
NoLine == [json |-> FALSE, value |-> Req(NoId, "<none>", NoParams)]

FileInputs == {Parsed(r) : r \in FileRequests}
RpcInputs == {Parsed(r) : r \in RpcRequests} \cup {Malformed}

\* what the provider can do with a request that reaches it
NetsFor(line) ==
    IF line.json /\ line.value.method = "tool_web_search_handler" THEN Nets ELSE {"ok"}

(***************************************************************************)
(* The two transports                                                      *)
(***************************************************************************)
\* the record of a completed exchange: the input, what the dispatcher did
\* with it, the lines written (or the HTTP body) and the HTTP status
Exchange(via, token, line, d, out, status, headers) ==
    [kind |-> "exchange", via |-> via, token |-> token, line |-> line, resp |-> d.resp,
     result |-> d.out, handler |-> d.handler, io |-> d.io, out |-> out,
     status |-> status, headers |-> headers]

NoLast == [kind |-> "none", via |-> "", token |-> "", line |-> NoLine, resp |-> EmptyResp,
           result |-> NotCalled, handler |-> "none", io |-> {}, out |-> <<>>,
           status |-> 0, headers |-> {}]

\* the first exchange of a run is kept where the run compares later answers
\* with it ("armed"), and nowhere else ("off")
Unwatched == [state |-> "off", ex |-> NoLast]
Armed == [state |-> "armed", ex |-> NoLast]
Seen(w, ex) == IF w.state = "armed" THEN [state |-> "set", ex |-> ex] ELSE w

NoClaim == [known |-> FALSE, filename |-> FnRoot, text |-> <<>>, appended |-> FALSE,
            writes |-> 0]

\* the claim after one more successful write of content to filename f
Rewritten(c, f, content, append) ==
    IF append
        THEN IF c.known /\ c.filename = f
                THEN [c EXCEPT !.text = @ \o content, !.appended = TRUE, !.writes = 2]
                ELSE NoClaim
        ELSE [known |-> TRUE, filename |-> f, text |-> content, appended |-> FALSE,
              writes |-> IF c.known /\ c.filename = f THEN 2 ELSE 1]

\* what the successful writes promise a read of one filename to return: the
\* text of an overwrite, extended by each append to the same filename, and
\* nothing once another file tool request has changed the sandbox
Claim(c, req, d) ==
    IF d.handler = "tool_file_write_handler" /\ d.out.kind = "success"
        THEN Rewritten(c, req.params.filename, req.params.content,
                       "append" \in req.params.given /\ req.params.append)
    ELSE IF d.handler = "tool_file_delete_handler" /\ d.out.kind = "success"
        THEN NoClaim
    ELSE c

\* the text a filename's path leads to ("" when there is none)
TextAt(loc, fl) == IF loc \in DOMAIN fl THEN fl[loc] ELSE <<>>

\* a client sends no append that would make a file longer than MaxLen
Issuable(line) ==
    (line.json /\ line.value.method = "tool_file_write_handler"
        /\ line.value.params.filename.str /\ line.value.params.append)
    => Len(TextAt(Target(Join(line.value.params.filename), TRUE, files, links), files))
         + Len(line.value.params.content) <= MaxLen

\* a loop that reads the next line while the last one is still unanswered
StdioReadEarly(inputs) ==
    /\ mode = "stdio" /\ pc \in {"read", "got"}
    /\ \E line \in inputs \cup {Eof} :
        /\ Issuable(line)
        /\ request' = line
        /\ pc' = IF line = Eof THEN "done" ELSE "got"
    /\ last' = NoLast
    /\ UNCHANGED <<mode, files, links, claimed, config, first, conns>>

\* main_stdio, line 380: read the next line (or end of input)
StdioRead(inputs) ==
    /\ mode = "stdio" /\ pc = "read"
    /\ \E line \in inputs \cup {Eof} :
        /\ Issuable(line)
        /\ request' = line
        /\ pc' = IF line = Eof THEN "done" ELSE "got"
    /\ last' = NoLast
    /\ UNCHANGED <<mode, files, links, claimed, config, first, conns>>

\* a loop that ends at a line that is not JSON
AfterLineEndsOnBadJson(line, d) ==
    IF ~line.json THEN "done"
    ELSE IF d.resp.kind = "hang" THEN "blocked" ELSE "read"

\* a loop that ends when the method raised
AfterLineEndsOnRaise(line, d) ==
    IF line.json /\ d.out.kind = "raise" THEN "done"
    ELSE IF line.json /\ d.resp.kind = "hang" THEN "blocked" ELSE "read"

\* where main_stdio goes after it has handled a line
AfterLine(line, d) == IF line.json /\ d.resp.kind = "hang" THEN "blocked" ELSE "read"

\* a loop that prints results and parse errors but no error response
PrintedResultsOnly(line, d) ==
    IF ~line.json THEN <<ParseError>>
    ELSE IF d.resp.kind \in {"hang", "error"} THEN <<>>
    ELSE <<d.resp>>

\* the lines main_stdio prints for a line
Printed(line, d) ==
    IF ~line.json THEN <<ParseError>>
    ELSE IF d.resp.kind = "hang" THEN <<>>
    ELSE <<d.resp>>

\* the effect of one iteration of main_stdio's loop, d being what the
\* dispatcher did
StdioEffect(line, d) ==
    /\ files' = d.files
    /\ links' = d.links
    /\ claimed' = Claim(claimed, line.value, d)
    /\ last' = Exchange("stdio", "", line, d, Printed(line, d), 0, {})
    /\ first' = Seen(first, last')
    /\ pc' = AfterLine(line, d)

\* main_stdio, lines 383-391: parse the line, dispatch it, print the response
StdioAnswer ==
    /\ mode = "stdio" /\ pc = "got"
    /\ \E net \in NetsFor(request) :
        StdioEffect(request,
                    IF request.json
                       THEN async_dispatch(request.value, files, links, config, net)
                       ELSE Unserved(EmptyResp, files, links))
    /\ request' = NoLine
    /\ UNCHANGED <<mode, config, conns>>

\* the bearer token of a POST: no Authorization header, a string that is no
\* token signed with SECRET_KEY, a signed token without "sub", a signed token
\* of a user
Tokens == {"none", "garbage", "nosub", "valid"}

Unauthorized == [raised |-> TRUE, status_code |-> 401,
                 headers |-> {"WWW-Authenticate: Bearer"}]
Verified == [raised |-> FALSE, status_code |-> 200, headers |-> {}]

\* a verifier that takes any signed token for a user
verify_token_signed(token) ==
    IF token \in {"none", "garbage"} THEN Unauthorized ELSE Verified

\* the dependency of mcp_endpoint: oauth2_scheme, then verify_token
verify_token(token) ==
    IF token = "none" THEN Unauthorized                \* oauth2_scheme: Not authenticated
    ELSE IF token = "garbage" THEN Unauthorized        \* JWTError
    ELSE IF token = "nosub" THEN Unauthorized          \* username is None
    ELSE Verified

\* the HTTP status of a POST /mcp
Status(token_ok, body) == IF ~token_ok THEN 401 ELSE IF ~body.json THEN 500 ELSE 200

\* the body of the HTTP response
Body(status, d) == IF status = 200 /\ d.resp.kind /= "hang" THEN <<d.resp>> ELSE <<>>

\* the effect of one POST /mcp
HttpEffect(token, auth, status, body, d) ==
    /\ files' = d.files
    /\ links' = d.links
    /\ claimed' = Claim(claimed, body.value, d)
    /\ last' = Exchange("http", token, body, d, Body(status, d), status, auth.headers)
    /\ first' = Seen(first, last')
    /\ pc' = IF d.resp.kind = "hang" THEN "blocked" ELSE "serve"

\* mcp_endpoint: verify_token, request.json(), async_dispatch, JSONResponse
HttpPost(inputs) ==
    /\ mode = "http" /\ pc = "serve"
    /\ \E token \in Tokens, body \in inputs :
        /\ Issuable(body)
        /\ \E net \in NetsFor(body) :
            HttpEffect(token, verify_token(token),
                       Status(~verify_token(token).raised, body), body,
                       IF ~verify_token(token).raised /\ body.json
                          THEN async_dispatch(body.value, files, links, config, net)
                          ELSE Unserved(EmptyResp, files, links))
    /\ UNCHANGED <<mode, request, config, conns>>

\* the connections the server serves at a time
MaxConns == 2
Conns == 1..MaxConns

\* a connection: where its mcp_endpoint coroutine stands ("idle": no request,
\* "verified": before `await request.json()`, "parsed": before
\* `await async_dispatch(...)`, "done": response returned), its request, its
\* response, and whether it arrived while another delete of the same
\* existing file was in flight
Conn(stage, token, body, status, result, racing) ==
    [stage |-> stage, token |-> token, body |-> body, status |-> status,
     result |-> result, racing |-> racing]

NoConn == Conn("idle", "", NoLine, 0, NotCalled, FALSE)
NoConns == [c \in Conns |-> NoConn]

InitFiles == [q \in OutsideFiles |-> <<"a">>]

Init ==
    /\ mode \in {"stdio", "http"}
    /\ files = InitFiles
    /\ links = {PathLinkIn, PathLinkOut}
    /\ pc = IF mode = "stdio" THEN "read" ELSE "serve"
    /\ request = NoLine
    /\ last = NoLast
    /\ claimed = NoClaim
    /\ config = ServerConfig
    /\ first = Unwatched
    /\ conns = NoConns

\* every method over both transports
Next == StdioRead(RpcInputs) \/ StdioAnswer \/ HttpPost(RpcInputs)

Spec == Init /\ [][Next]_vars

\* main_stdio goes on once it has read a line: the event loop runs the
\* coroutine whenever it is not waiting
SpecLive == Spec /\ WF_vars(StdioAnswer)

\* the file tools with every filename, over the stdio transport
InitFiles2 == Init /\ mode = "stdio"

NextFiles == StdioRead(FileInputs) \/ StdioAnswer

SpecFiles == InitFiles2 /\ [][NextFiles]_vars

\* requests that are repeated after other requests have been served
HistoryRequests ==
    {Req("1", "initialize_handler", NoParams),
     Req("1", "initialize_handler", TextParams("secret_key", "k1")),
     Req("1", "capabilities_list_handler", NoParams),
     Req("1", "prompt_handler", TextParams("prompt_name", "greet")),
     Req("1", "resource_model_context_handler", TextParams("model_id", "m1")),
     Req("1", "tool_web_search_handler",
         Params({"query", "api"}, FnRoot, <<>>, FALSE, "q", "google")),
     Req("1", "tool/file-list", NoParams),
     Req("1", "tool_file_list_handler", NoParams),
     Req("1", "tool_file_read_handler", FileParams(FnA)),
     Req("1", "tool_file_write_handler", WriteParams(FnA, <<"a">>)),
     Req("1", "tool_file_delete_handler", FileParams(FnA))}

HistoryInputs == {Parsed(r) : r \in HistoryRequests} \cup {Malformed}

\* both transports, the first exchange of the run kept for comparison
InitHistory ==
    /\ mode \in {"stdio", "http"}
    /\ files = InitFiles
    /\ links = {PathLinkIn, PathLinkOut}
    /\ pc = IF mode = "stdio" THEN "read" ELSE "serve"
    /\ request = NoLine
    /\ last = NoLast
    /\ claimed = NoClaim
    /\ config = ServerConfig
    /\ first = Armed
    /\ conns = NoConns

NextHistory == StdioRead(HistoryInputs) \/ StdioAnswer \/ HttpPost(HistoryInputs)

SpecHistory == InitHistory /\ [][NextHistory]_vars

\* requests that meet on one file when they are in flight together
ConcurrentRequests ==
    {Req("1", "tool_file_delete_handler", FileParams(FnA)),
     Req("1", "tool_file_write_handler", WriteParams(FnA, <<"a">>)),
     Req("1", "tool_file_read_handler", FileParams(FnA))}

ConcurrentInputs == {Parsed(r) : r \in ConcurrentRequests} \cup {Malformed}

InFlight(k) == k.stage \in {"verified", "parsed"}
IsDelete(k) == k.body.json /\ k.body.value.method = "tool_file_delete_handler"

\* a POST /mcp arrives on a free connection; its token is verified before
\* the endpoint's body starts
Accept(c) ==
    /\ mode = "http" /\ pc = "serve" /\ conns[c].stage = "idle"
    /\ \E token \in Tokens, body \in ConcurrentInputs :
        conns' = [conns EXCEPT ![c] =
            IF verify_token(token).raised
               THEN Conn("done", token, body, 401, NotCalled, FALSE)
               ELSE Conn("verified", token, body, 0, NotCalled,
                         /\ IsDelete([body |-> body])
                         /\ exists(Join(body.value.params.filename), files, links)
                         /\ \E o \in Conns \ {c} :
                               InFlight(conns[o]) /\ conns[o].body = body)]
    /\ UNCHANGED <<mode, files, links, pc, request, last, claimed, config, first>>

\* line 370: `await request.json()`, where the coroutine can be suspended
ReadBody(c) ==
    /\ mode = "http" /\ conns[c].stage = "verified"
    /\ conns' = [conns EXCEPT ![c] =
            IF conns[c].body.json THEN [@ EXCEPT !.stage = "parsed"]
            ELSE [@ EXCEPT !.stage = "done", !.status = 500]]
    /\ UNCHANGED <<mode, files, links, pc, request, last, claimed, config, first>>

\* what a dispatch leaves behind, d being what the dispatcher did
Respond(c, d) ==
    /\ files' = d.files
    /\ links' = d.links
    /\ claimed' = Claim(claimed, conns[c].body.value, d)
    /\ last' = Exchange("http", conns[c].token, conns[c].body, d, Body(200, d), 200, {})
    /\ first' = Seen(first, last')
    /\ conns' = [conns EXCEPT ![c] = [@ EXCEPT !.stage = "done", !.status = 200,
                                                !.result = d.out]]
    /\ UNCHANGED <<mode, pc, request, config>>

\* a handler whose existence check and unlink are separate steps of the
\* event loop: the unlink of a delete that raced finds the file gone
DispatchTorn(c) ==
    /\ mode = "http" /\ conns[c].stage = "parsed"
    /\ IF \E o \in Conns \ {c} :
            /\ conns[c].racing \/ conns[o].racing
            /\ conns[o].stage = "done" /\ conns[o].body = conns[c].body
            /\ conns[o].result.kind = "success"
         THEN Respond(c, Served(conns[c].body.value,
                                Done(Error(-32002, "delete error"), files, links, {})))
         ELSE Respond(c, async_dispatch(conns[c].body.value, files, links, config, "ok"))

\* lines 372-373: `await async_dispatch(request_json)`; the handler is a
\* coroutine without an await of its own, so it runs from its first line to
\* its return before the event loop resumes any other coroutine
Dispatch(c) ==
    /\ mode = "http" /\ conns[c].stage = "parsed"
    /\ Respond(c, async_dispatch(conns[c].body.value, files, links, config, "ok"))

\* the response has gone out; the connection serves its next request
Close(c) ==
    /\ mode = "http" /\ conns[c].stage = "done"
    /\ conns' = [o \in Conns |->
                    IF o = c THEN NoConn ELSE [conns[o] EXCEPT !.racing = FALSE]]
    /\ UNCHANGED <<mode, files, links, pc, request, last, claimed, config, first>>

\* the HTTP transport with several requests in flight
InitConcurrent == Init /\ mode = "http"

NextConcurrent ==
    \E c \in Conns : Accept(c) \/ ReadBody(c) \/ Dispatch(c) \/ Close(c)

SpecConcurrent == InitConcurrent /\ [][NextConcurrent]_vars

\* the configurations the server can start with: the secret, the provider
\* credentials, the search table (default, providers, enabled providers), the
\* resource types and the prompts (names, and those with a non-empty descriptor)
Configs ==
    { [ secret |-> s, bing_key |-> bk, google_key |-> gk, default |-> df,
        apis |-> a.apis, enabled |-> a.enabled, resources |-> rs,
        prompts |-> pr.prompts, filled |-> pr.filled ] :
        s \in {"", "k1"}, bk \in BOOLEAN, gk \in BOOLEAN, df \in {"", "google", "duck"},
        a \in { [apis |-> {}, enabled |-> {}],
                [apis |-> {"bing", "google"}, enabled |-> {"bing"}],
                [apis |-> {"bing", "google", "duck"}, enabled |-> {"bing", "google", "duck"}] },
        rs \in {<<>>, <<"dataset">>, <<"dataset", "corpus">>},
        pr \in { [prompts |-> <<>>, filled |-> {}],
                 [prompts |-> <<"greet", "blank">>, filled |-> {"greet"}],
                 [prompts |-> <<"blank", "greet">>, filled |-> {"greet", "blank"}] } }

\* requests to the handlers that read the configuration
ConfigRequests ==
    {Req("1", "initialize_handler", NoParams),
     Req("1", "capabilities_list_handler", NoParams),
     Req("1", "prompt_list_handler", NoParams),
     Req("1", "tool_web_search_handler", TextParams("query", "q"))}
    \cup {Req("1", "initialize_handler", TextParams("secret_key", k)) :
              k \in {"k1", "bad", ""}}
    \cup {Req("1", "prompt_handler", TextParams("prompt_name", n)) :
              n \in {"greet", "blank", "nope"}}
    \cup {Req("1", "tool_web_search_handler",
               Params({"query", "api"}, FnRoot, <<>>, FALSE, "q", api)) :
              api \in {"bing", "google", "duck"}}

ConfigInputs == {Parsed(r) : r \in ConfigRequests}

\* every configuration, over the stdio transport
InitConfig ==
    /\ mode = "stdio"
    /\ files = InitFiles
    /\ links = {PathLinkIn, PathLinkOut}
    /\ pc = "read"
    /\ request = NoLine
    /\ last = NoLast
    /\ claimed = NoClaim
    /\ config \in Configs
    /\ first = Unwatched
    /\ conns = NoConns

NextConfig == StdioRead(ConfigInputs) \/ StdioAnswer

SpecConfig == InitConfig /\ [][NextConfig]_vars

(***************************************************************************)
(* Properties                                                              *)
(***************************************************************************)
Answered == last.kind = "exchange"
LastReq == last.line.value
LastFn == LastReq.params.filename

PathTools == {"tool_file_read_handler", "tool_file_write_handler",
              "tool_file_delete_handler"}

\* the last exchange ran the handler h
Ran(h) == Answered /\ last.handler = h
RanPathTool == Answered /\ last.handler \in PathTools /\ LastFn.str

Succeeded == last.result.kind = "success"
Failed(code) == last.result.kind = "error" /\ last.result.code = code

\* the canonical target of a filename lies outside the sandbox root
Outside(loc) == ~IsPrefix(SandboxRoot, loc)
Escapes(fn) == Outside(resolve(Join(fn), links))

\* filesystem calls that read, create, modify or delete a file
Touching == {"read", "write", "unlink", "open"}

\* what tool/file-list would return now
Listing == tool_file_list_handler(files, links).out.result.files

\* the filename, as the string it is, is one of the listed names
ListedAs(fn, names) == fn.str /\ ~fn.abs /\ Len(fn.segs) = 1 /\ fn.segs[1] \in names

\* C1: whatever file tool requests were served, no file outside the sandbox
\* root was read, created, modified or deleted, and a request whose
\* canonical target is outside the root was answered denied (-32003).
C1_Confined ==
    /\ \A q \in OutsideFiles : q \in DOMAIN files /\ files[q] = InitFiles[q]
    /\ \A q \in DOMAIN files : q \in OutsideFiles \/ ~Outside(q)
    /\ Answered => \A e \in last.io : e.op \in Touching => ~Outside(e.loc)
    /\ (RanPathTool /\ Escapes(LastFn)) => Failed(-32003)

C1_Witness ==
    /\ RanPathTool /\ LastFn = FnLinkOut /\ Failed(-32003)
    /\ PathA \in DOMAIN files

\* C2 as stated: every filename with a "../" sequence or an absolute path is
\* denied (-32003) by the three tools, before any existence check or I/O.
C2_DotDotOrAbsoluteDenied ==
    (RanPathTool /\ (HasDotDot(LastFn) \/ LastFn.abs))
        => (Failed(-32003) /\ last.io = {})

\* C2 amended: the three tools deny (-32003) exactly the filenames whose
\* canonical target lies outside the sandbox root, and a denial is decided
\* before any existence check or file I/O.
C2_EscapeDenied ==
    RanPathTool =>
        /\ Escapes(LastFn) <=> Failed(-32003)
        /\ Failed(-32003) => last.io = {}

C2_Witness ==
    /\ RanPathTool /\ LastFn \in {FnUp, FnAbsOut} /\ Failed(-32003) /\ last.io = {}
    /\ last.handler = "tool_file_read_handler"

\* C3: a read that follows a successful overwrite of the same filename
\* returns exactly the content written, and after a successful delete of a
\* filename the file list does not contain it.
C3_RoundTrip ==
    /\ (Ran("tool_file_read_handler") /\ Succeeded /\ claimed.known
            /\ ~claimed.appended /\ claimed.filename = LastFn)
        => last.result.result.content = claimed.text
    /\ (Ran("tool_file_delete_handler") /\ Succeeded) => ~ListedAs(LastFn, Listing)

\* C4: after a write of a and a second write of b to the same filename, a
\* read returns a followed by b when the second write appended, and b alone
\* when it did not.
C4_Append ==
    (Ran("tool_file_read_handler") /\ Succeeded /\ claimed.known
        /\ claimed.writes = 2 /\ claimed.filename = LastFn)
    => last.result.result.content = claimed.text

\* C5 as stated: a filename whose write succeeded and that was not deleted
\* since is one of the names tool/file-list returns.
C5_WrittenIsListed ==
    claimed.known => ListedAs(claimed.filename, Listing)

\* a filename that is one plain name, without a directory part
PlainName(fn) == fn.str /\ ~fn.abs /\ Len(fn.segs) = 1

\* C5 amended: tool/file-list returns the names of the regular files that
\* lie directly in the sandbox root.  A filename that is one plain name is
\* listed once its write has succeeded and until a delete succeeds, and the
\* file a longer filename leads to is listed under its own name if it lies
\* directly in the root; after its successful delete a filename is not listed.
C5_PlainWrittenIsListed ==
    /\ claimed.known =>
        /\ PlainName(claimed.filename) => ListedAs(claimed.filename, Listing)
        /\ LET loc == Target(Join(claimed.filename), TRUE, files, links)
           IN  Parent(loc) = SandboxRoot => Name(loc) \in Listing
    /\ (Ran("tool_file_delete_handler") /\ Succeeded) => ~ListedAs(LastFn, Listing)

C5_Witness ==
    /\ claimed.known /\ claimed.filename = FnLinkIn /\ "link_in" \in Listing
    /\ Ran("tool_file_list_handler")

\* the last input reached the dispatcher: a line (or an authenticated body)
\* that parsed
Reached == Answered /\ last.line.json /\ last.status \in {0, 200}
Serving == pc \in {"read", "serve"}

\* the handler the docstrings and the handler table give a method name
HandlerOf(m) ==
    CASE m = "initialize" -> "initialize_handler"
      [] m = "capabilities/list" -> "capabilities_list_handler"
      [] m = "resource/model-context" -> "resource_model_context_handler"
      [] m = "tool/web-search" -> "tool_web_search_handler"
      [] m = "tool/file-read" -> "tool_file_read_handler"
      [] m = "tool/file-write" -> "tool_file_write_handler"
      [] m = "tool/file-list" -> "tool_file_list_handler"
      [] m = "tool/file-delete" -> "tool_file_delete_handler"
      [] m = "prompt/list" -> "prompt_list_handler"
      [] OTHER -> "none"

IsError(r, code) == r.kind = "error" /\ r.code = code

\* C6: a request whose method is a name of the handler table is found in the
\* registry, is not answered method-not-found, and runs that handler.
C6_TableNamesServed ==
    (Reached /\ LastReq.shape = "request" /\ LastReq.method \in DocNames
        /\ Binds(Registry[HandlerOf(LastReq.method)], LastReq.params.given))
    => (~IsError(last.resp, -32601) /\ last.handler = HandlerOf(LastReq.method))

UnregisteredRequest == Reached /\ LastReq.shape = "request" /\ ~Registered(LastReq.method)

FailedRequest ==
    /\ Reached
    /\ \/ LastReq.shape /= "request"
       \/ ~Registered(LastReq.method)
       \/ ~Binds(Registry[LastReq.method], LastReq.params.given)
       \/ last.result.kind \in {"error", "raise"}

C9_ParseErrorContinues ==
    /\ (Answered /\ last.via = "stdio" /\ ~last.line.json) =>
            /\ Len(last.out) = 1
            /\ IsError(last.out[1], -32700) /\ last.out[1].id = "null"
            /\ pc = "read"
    /\ pc = "done" => request = Eof

C9_Witness ==
    Answered /\ last.via = "stdio" /\ last.line = Malformed /\ pc = "read"
        /\ last.out = <<ParseError>>

\* C10: stdio is strictly sequential: a line that was read is answered with
\* exactly one output line (carrying the id of a request that has one)
\* before the next line is read, so there is never a second line in flight.
C10_Sequential ==
    [][ /\ pc = "got" =>
            /\ last'.kind = "exchange" /\ last'.line = request
            /\ request' = NoLine
            /\ pc' = "read" =>
                /\ Len(last'.out) = 1
                /\ (request.json /\ request.value.shape = "request"
                        /\ request.value.id /= NoId)
                    => last'.out[1].id = request.value.id
        /\ request' \notin {request, NoLine} => (pc = "read" /\ request = NoLine)
      ]_vars

C10_Witness ==
    /\ Answered /\ last.via = "stdio" /\ pc = "read" /\ request = NoLine
    /\ last.line.json /\ LastReq.id = "1" /\ last.out = <<last.resp>>
    /\ last.resp.id = "1" /\ last.resp.kind = "result"

\* the last exchange was a POST /mcp carrying the token t
Posted(t) == Answered /\ last.via = "http" /\ last.token = t

\* C11: a POST /mcp whose bearer token is missing or invalid is answered 401
\* with WWW-Authenticate: Bearer, without a body from the dispatcher, with no
\* handler run and no filesystem call made, and leaves the sandbox as it was.
C11_Unauthenticated401 ==
    [][ (last'.kind = "exchange" /\ last'.via = "http" /\ last'.token /= "valid") =>
            /\ last'.status = 401
            /\ "WWW-Authenticate: Bearer" \in last'.headers
            /\ last'.out = <<>> /\ last'.resp = EmptyResp
            /\ last'.handler = "none" /\ last'.io = {}
            /\ files' = files /\ links' = links /\ claimed' = claimed
      ]_vars

C11_Witness ==
    /\ Posted("nosub") /\ last.status = 401
    /\ last.line = Parsed(Req("1", "tool_file_write_handler", WriteParams(FnA, <<"a">>)))
    /\ PathA \notin DOMAIN files

\* C12: every authenticated POST /mcp that is answered (a request with an
\* id, a JSON value that is no request, or a malformed body) gets status 200
\* and a body that is one JSON-RPC response object; a malformed body gets the
\* parse error (-32700, id null).
C12_AuthenticatedAlways200 ==
    (Posted("valid") /\ last.resp.kind /= "hang"
        /\ (~last.line.json \/ LastReq.shape /= "request" \/ LastReq.id /= NoId))
    => /\ last.status = 200
       /\ Len(last.out) = 1
       /\ last.out[1].kind \in {"result", "error"}
       /\ ~last.line.json => last.out = <<ParseError>>

\* the provider the last tool/web-search request went to
LastApi == api_to_use(IF "api" \in LastReq.params.given THEN LastReq.params.api ELSE "",
                      config)
Fetching == {e \in last.io : e.op = "get"}

\* C13: a tool/web-search whose provider (named in the request, or else the
\* configured default) is absent from the configuration or is not enabled
\* returns the configuration error -32001 and no request is sent.
C13_DisabledProviderNoCall ==
    (Ran("tool_web_search_handler")
        /\ (LastApi \notin config.apis \/ LastApi \notin config.enabled))
    => (Failed(-32001) /\ IsError(last.resp, -32001) /\ Fetching = {} /\ pc = "read")

C13_Witness ==
    /\ Ran("tool_web_search_handler") /\ "api" \in LastReq.params.given
    /\ LastApi = "google" /\ config.google_key
    /\ "google" \in config.apis \ config.enabled
    /\ Failed(-32001) /\ Fetching = {}

\* C14: every tool/web-search request that was read is eventually answered
\* with a response (results or an error), whatever the provider does.
C14_SearchReturns ==
    (pc = "got" /\ request.json /\ request.value.method = "tool_web_search_handler")
    ~> (Answered /\ last.line.json /\ LastReq.method = "tool_web_search_handler"
            /\ last.resp.kind \in {"result", "error"})

\* the handlers whose answer depends on the sandbox contents
SandboxTools == PathTools \cup {"tool_file_list_handler"}

LastKey == IF "secret_key" \in LastReq.params.given THEN LastReq.params.text ELSE "<None>"

\* C16: initialize returns the unauthorized error -32001 exactly when a
\* server secret is configured and the secret_key of the request differs
\* from it or is omitted; in every other case it returns status initialized.
C16_InitializeSecret ==
    Ran("initialize_handler") =>
        IF config.secret /= "" /\ LastKey /= config.secret
            THEN Failed(-32001) /\ IsError(last.resp, -32001)
            ELSE last.result = Success([status |-> "initialized"])
                    /\ last.resp.kind = "result"

C16_Witness ==
    /\ Ran("initialize_handler") /\ config.secret = "k1"
    /\ "secret_key" \notin LastReq.params.given /\ Failed(-32001)

FixedTools == {"tool://web-search", "tool://file-read", "tool://file-write",
               "tool://file-list", "tool://file-delete"}

\* C17: every capabilities/list, under every configuration, succeeds with
\* a tools list holding the five fixed tool URIs and a resources list that
\* is the model-context template followed by exactly one entry per
\* configured resource type.
C17_Capabilities ==
    Ran("capabilities_list_handler") =>
        /\ Succeeded
        /\ FixedTools \subseteq SeqToSet(last.result.result.tools)
        /\ Len(last.result.result.resources) = 1 + Len(config.resources)
        /\ last.result.result.resources[1] = "resource://model-context/{model_id}"
        /\ \A i \in 1..Len(config.resources) :
                last.result.result.resources[i + 1] = config.resources[i]

C17_Witness ==
    /\ Ran("capabilities_list_handler") /\ config.resources = <<>>
    /\ config.apis = {} /\ config.prompts = <<>>
    /\ Len(last.result.result.resources) = 1
    /\ Len(last.result.result.tools) = 5

\* the rows with the model_id of the last resource/model-context request
Hits == {i \in 1..Len(Records) : Records[i].model_id = LastReq.params.text}
FirstHit == Records[CHOOSE i \in Hits : \A j \in Hits : i <= j]

\* the result the table of handlers gives for a row
Shown(r) ==
    Success([version |-> r.version, status |-> r.status,
             parameters |-> r.parameters.value,
             metrics |-> IF r.metrics = NoText THEN "null" ELSE r.metrics.value])

Listed == SeqToSet(prompt_list_handler(config).result.prompts)

\* C20: the prompt handler succeeds for exactly the names prompt/list
\* returns, and answers not-found (-32004) for every other name.
C20_PromptLookupAgrees ==
    Ran("prompt_handler") =>
        IF LastReq.params.text \in Listed THEN Succeeded ELSE Failed(-32004)

\* C19: a file tool request answered denied (-32003) or not-found (-32004)
\* leaves every file, its content and every link as they were, writes and
\* unlinks nothing, and leaves the listing of the sandbox as it was.
C19_RefusalChangesNothing ==
    [][ (/\ last'.kind = "exchange" /\ last'.handler \in SandboxTools
         /\ last'.result.kind = "error" /\ last'.result.code \in {-32003, -32004})
        => /\ files' = files /\ links' = links
           /\ \A e \in last'.io : e.op \notin {"write", "unlink"}
           /\ tool_file_list_handler(files', links').out
                = tool_file_list_handler(files, links).out
      ]_vars

C19_Witness ==
    /\ Ran("tool_file_delete_handler") /\ LastFn = FnLinkIn /\ Failed(-32004)
    /\ PathLinkIn \in links /\ PathA \notin DOMAIN files
    /\ PathSubC \in DOMAIN files

\* both connections hold the answer to a tool/file-delete of the same file,
\* and the later request arrived while the earlier one was in flight and the
\* file existed
RacedDeletes ==
    /\ \A c \in Conns : conns[c].stage = "done" /\ conns[c].status = 200
                            /\ IsDelete(conns[c])
    /\ conns[1].body = conns[2].body
    /\ \E c \in Conns : conns[c].racing

\* C21: of two tool/file-delete requests for the same existing file that
\* are in flight together on the HTTP transport, exactly one succeeds and
\* the other is answered not-found (-32004); neither gets an I/O error.
C21_OneDeleteWins ==
    RacedDeletes =>
        /\ \E c \in Conns : conns[c].result.kind = "success"
        /\ \E c \in Conns : conns[c].result.kind = "error" /\ conns[c].result.code = -32004
        /\ \A c \in Conns : ~(conns[c].result.kind = "error" /\ conns[c].result.code = -32002)
        /\ PathA \notin DOMAIN files

C21_Witness ==
    /\ RacedDeletes /\ conns[2].racing
    /\ conns[2].result.kind = "success" /\ conns[1].result.kind = "error"

====
